---- MODULE Spec2Model ----
(***************************************************************************)
(* A model of the TFTP (RFC 1350) client of src/Tsam test/src/tftpd.c:     *)
(* the wire codec (tftp_enc_packet and the decoders), the session record   *)
(* (tftp_t), the select() mainloop with its timer, backoff and retry       *)
(* counter (tftp_mainloop), and the part of main that acquires the socket  *)
(* and the local file, runs the loop and releases both.                    *)
(*                                                                         *)
(* Packets are sequences of bytes (0..255), encoded and decoded as the     *)
(* code does it.  Times are microseconds.                                  *)
(***************************************************************************)
EXTENDS Integers, Sequences, FiniteSets, TLC

(***************************************************************************)
(* Program constants (tftpd.c:33-64).                                      *)
(***************************************************************************)
TFTP_OPCODE_RRQ == 1
TFTP_OPCODE_WRQ == 2
TFTP_OPCODE_DATA == 3
TFTP_OPCODE_ACK == 4
TFTP_OPCODE_ERROR == 5

\* A retry budget of one more than TFTP_DEF_RETRIES.
RetriesPlusOne == 6 + 1
TFTP_DEF_RETRIES == 6
TFTP_DEF_TIMEOUT_SEC == 0
TFTP_DEF_TIMEOUT_USEC == 50000
TFTP_BLOCKSIZE == 512
TFTP_MAX_MSGSIZE == 4 + TFTP_BLOCKSIZE

TFTP_ERR_NOT_FOUND == 1

TFTP_STATE_CLOSED == 0
TFTP_STATE_RRQ_SENT == 1
TFTP_STATE_WRQ_SENT == 2
TFTP_STATE_DATA_SENT == 3
TFTP_STATE_LAST_DATA_SENT == 4
TFTP_STATE_ACK_SENT == 5
TFTP_STATE_LAST_ACK_SENT == 6

\* <stdlib.h>, used at tftpd.c:342 and in every return statement.
EXIT_SUCCESS == 0
EXIT_FAILURE == 1

\* uint16_t (tftp_t.blkno, the opcode and error code parameters).
UINT16_MOD == 65536

\* TFTP_MODE_OCTET, "octet", the only mode main ever sets (tftpd.c:45, 535).
TFTP_MODE_OCTET == <<111, 99, 116, 101, 116>>

(***************************************************************************)
(* Bounds of the model.                                                    *)
(***************************************************************************)
\* The transferred file has 0..MaxFullBlocks full blocks and a tail of 0 or
\* TailLen bytes.
MaxFullBlocks == 1
TailLen == 3
\* Length of the short remote file name; LongName is the shortest name
\* tftp_enc_packet rejects with mode "octet".
ShortName == 1
LongName == 506
\* A conforming peer may repeat any of its last DupWindow packets.
DupWindow == 2
\* A datagram may arrive after the deadline only while the backoff is at most
\* MaxBackoff (each such arrival doubles the backoff).
MaxBackoff == 100000
\* At most MaxForeign of the datagrams received are not a conforming server's.
MaxForeign == 1
\* Times are kept relative to the most recent start of the retransmission
\* timer, which is placed at Epoch (any value > 0: a set timer is non-zero).
Epoch == 1000000
\* Lateness of a clock read that is past the deadline.
Late == 1

(***************************************************************************)
(* Bytes and integer helpers.                                              *)
(***************************************************************************)
Min(a, b) == IF a < b THEN a ELSE b
Max(a, b) == IF a > b THEN a ELSE b

\* ((x >> 8) & 0xff) and (x & 0xff) of tftp_enc_packet.
HiByte(x) == (x \div 256) % 256
LoByte(x) == x % 256

\* n bytes of a file name (no NUL inside).
NameOf(n) == [i \in 1..n |-> 97]

\* Byte i (1-based) of the transferred file.
FileByte(i) == 1 + (i % 251)

\* len bytes of the file from offset pos.
FileBytes(pos, len) == [j \in 1..len |-> FileByte(pos + j)]

\* The first mlen bytes of the buffer m after bytes were written at its start
\* (the writes through p = tftp->msg).
Overlay(m, mlen, bytes) ==
    [i \in 1..mlen |-> IF i <= Len(bytes) THEN bytes[i] ELSE m[i]]

\* C strlen: the number of bytes before the first NUL.
StrLenFrom(s, i) ==
    LET nuls == {k \in i..Len(s) : s[k] = 0}
    IN  IF nuls = {}
        THEN Max(0, Len(s) - i + 1)
        ELSE (CHOOSE k \in nuls : \A j \in nuls : k <= j) - i

(***************************************************************************)
(* tftp_enc_packet (tftpd.c:123-187).  m holds tftp->msg[0..msglen), the   *)
(* bytes of the buffer the program ever reads, and mlen is tftp->msglen on *)
(* entry; the result holds the return value (-1 on an encoding error) and  *)
(* the buffer and length on return.  The opcode bytes (and the block       *)
(* number bytes of DATA and ERROR) are stored before the length check, so  *)
(* a failed call leaves them in the buffer and msglen as it was.           *)
(***************************************************************************)
tftp_enc_packet(m, mlen, file, mode, opcode, blkno, data) ==
    LET op  == <<HiByte(opcode), LoByte(opcode)>>
        blk == <<HiByte(blkno), LoByte(blkno)>>
        ok(p) == [ret |-> Len(p), msg |-> p, msglen |-> Len(p)]
        bad(p) == [ret |-> -1, msg |-> Overlay(m, mlen, p), msglen |-> mlen]
    IN  CASE opcode \in {TFTP_OPCODE_RRQ, TFTP_OPCODE_WRQ} ->
                LET len == Len(file) + 1 + Len(mode) + 1
                IN  IF 4 + len > TFTP_MAX_MSGSIZE
                    THEN bad(op)
                    ELSE ok(op \o file \o <<0>> \o mode \o <<0>>)
          [] opcode = TFTP_OPCODE_DATA ->
                IF 4 + Len(data) > TFTP_MAX_MSGSIZE
                THEN bad(op \o blk)
                ELSE ok(op \o blk \o data)
          [] opcode = TFTP_OPCODE_ACK -> ok(op \o blk)
          [] opcode = TFTP_OPCODE_ERROR ->
                LET len == StrLenFrom(data, 1)
                IN  IF 4 + len + 1 > TFTP_MAX_MSGSIZE
                    THEN bad(op \o blk)
                    ELSE ok(op \o blk \o SubSeq(data, 1, len) \o <<0>>)
          [] OTHER -> ok(op)

(***************************************************************************)
(* The decoders (tftpd.c:193-255).  rc is the return value (0 on success). *)
(***************************************************************************)
tftp_dec_opcode(buf) ==
    IF Len(buf) < 2
    THEN [rc |-> 65535, opcode |-> 0]
    ELSE [rc |-> 0, opcode |-> buf[1] * 256 + buf[2]]

tftp_dec_blkno(buf) ==
    IF Len(buf) < 4
    THEN [rc |-> 65535, blkno |-> 0]
    ELSE [rc |-> 0, blkno |-> buf[3] * 256 + buf[4]]

\* On failure *data = NULL and *datalen = 0 (an empty payload here).
tftp_dec_data(buf) ==
    IF Len(buf) < 5
    THEN [rc |-> 65535, data |-> <<>>, datalen |-> 0]
    ELSE [rc |-> 0, data |-> SubSeq(buf, 5, Len(buf)), datalen |-> Len(buf) - 4]

\* msg is the C string at buf + 4: the bytes up to the first NUL.
tftp_dec_error(buf) ==
    IF Len(buf) < 5
    THEN [rc |-> 65535, errcode |-> 0, msg |-> <<>>]
    ELSE LET n == StrLenFrom(buf, 5)
         IN  IF 4 + n = Len(buf)
             THEN [rc |-> -1, errcode |-> 0, msg |-> <<>>]
             ELSE [rc |-> 0, errcode |-> buf[3] * 256 + buf[4],
                   msg |-> SubSeq(buf, 5, 4 + n)]

(***************************************************************************)
(* State.                                                                  *)
(***************************************************************************)
VARIABLES
    pc,         \* position: "main", "request", "top", "select", "exit",
                \* and "codec", "encoded", "decoded" for the codec on its own
    opcode,     \* main's opcode: TFTP_OPCODE_RRQ or TFTP_OPCODE_WRQ
    file,       \* tftp.file, the remote file name (bytes, no NUL)
    flen,       \* length of the file that is transferred (the local file of a
                \* WRQ, the server's file of an RRQ)
    sd,         \* tftp.sd is an open descriptor
    fd,         \* tftp.fd is an open descriptor
    state,      \* tftp.state
    blkno,      \* tftp.blkno
    backoff,    \* tftp.backoff
    timer,      \* tftp.timer (0: cleared)
    addr,       \* tftp.addr
    msg,        \* tftp.msg[0..msglen)
    msglen,     \* tftp.msglen
    retries,    \* tftp_mainloop's retries
    rc,         \* tftp_mainloop's rc
    timeout,    \* tftp_mainloop's timeout, as handed to select
    clock,      \* the time the next gettimeofday returns
    fpos,       \* file offset of tftp.fd
    wfile,      \* bytes written to the local file through tftp.fd
    exitcode,   \* exit status of the process (-1 while it runs)
    \* What happened so far (observations, not read by the program):
    cause,      \* why the session failed ("": it has not)
    ntx,        \* transmissions of the packet now in msg
    lastTx,     \* bytes of the datagram sendto transmitted last
    lastTo,     \* address that datagram was sent to
    sent,       \* the packets transmitted, retransmissions left out
    absblk,     \* blkno without the 16-bit wrap
    srvMax,     \* highest block a conforming server may have answered
    anyRecv,    \* a datagram was received
    rcvdAcks,   \* block numbers of the ACK datagrams received
    nforeign,   \* datagrams received that no conforming server sent
    eqRead,     \* a clock read was equal to the deadline
    causeState, \* tftp.state when the session failed
    lastIo,     \* bytes the last read or write of the local file moved (-1: none)
    cin,        \* codec on its own: the arguments of tftp_enc_packet
    cout        \* codec on its own: what encoding and decoding returned

prog == <<pc, opcode, file, flen, sd, fd, state, blkno, backoff, timer, addr,
          msg, msglen, retries, rc, timeout, clock, fpos, wfile, exitcode>>
hist == <<cause, ntx, lastTx, lastTo, sent, absblk, srvMax, anyRecv, rcvdAcks,
          nforeign, eqRead, causeState, lastIo>>
codec == <<cin, cout>>
vars == <<prog, hist, codec>>

\* timerisset / timerclear (<sys/time.h>).
timerisset(t) == t # 0
TimerCleared == 0

\* tftp.backoff of TFTP_DEF_TIMEOUT_SEC s and TFTP_DEF_TIMEOUT_USEC us.
DefBackoff == TFTP_DEF_TIMEOUT_SEC * 1000000 + TFTP_DEF_TIMEOUT_USEC

\* ++ on a uint16_t (tftpd.c:449, 500).
Inc16Wide(x) == x + 1
Inc16(x) == (x + 1) % UINT16_MOD

\* Only the four header bytes of the buffer.
OutBytesHeader == SubSeq(msg, 1, Min(msglen, 4))

\* The bytes sendto transmits: msg[0..msglen).
OutBytes == SubSeq(msg, 1, msglen)

\* File lengths the model transfers.
FileLens == {b * TFTP_BLOCKSIZE + t : b \in 0..MaxFullBlocks, t \in {0, TailLen}}

\* Number of DATA blocks of a file of len bytes, and the length of block j.
NBlocks(len) == len \div TFTP_BLOCKSIZE + 1
ChunkLen(len, j) == Min(TFTP_BLOCKSIZE, len - TFTP_BLOCKSIZE * (j - 1))

HistInit ==
    /\ cause = ""
    /\ ntx = 0
    /\ lastTx = <<>>
    /\ lastTo = "none"
    /\ sent = <<>>
    /\ srvMax = -1
    /\ anyRecv = FALSE
    /\ rcvdAcks = {}
    /\ nforeign = 0
    /\ eqRead = FALSE
    /\ causeState = TFTP_STATE_CLOSED
    /\ lastIo = -1

CodecIdle ==
    /\ cin = <<>>
    /\ cout = <<>>

\* main's tftp before tftp_socket (tftpd.c:530-575): state CLOSED, everything
\* else zero; -r or -w was given and a file name.
Init ==
    /\ pc = "main"
    /\ opcode \in {TFTP_OPCODE_RRQ, TFTP_OPCODE_WRQ}
    /\ file \in {NameOf(ShortName), NameOf(LongName)}
    /\ flen \in FileLens
    /\ sd = FALSE
    /\ fd = FALSE
    /\ state = TFTP_STATE_CLOSED
    /\ blkno = 0
    /\ backoff = 0
    /\ timer = TimerCleared
    /\ addr = "none"
    /\ msg = <<>>
    /\ msglen = 0
    /\ retries = 0
    /\ rc = EXIT_SUCCESS
    /\ timeout = 0
    /\ clock = Epoch
    /\ fpos = 0
    /\ wfile = <<>>
    /\ exitcode = -1
    /\ absblk = 0
    /\ HistInit
    /\ CodecIdle

(***************************************************************************)
(* tftp_close (tftpd.c:318-325): close both descriptors.                   *)
(***************************************************************************)
tftp_close_sd_only ==
    /\ sd' = FALSE
    /\ fd' = fd

tftp_close ==
    /\ sd' = FALSE
    /\ fd' = FALSE

(***************************************************************************)
(* main, tftpd.c:577-595: tftp_socket (the socket, the server's well-known *)
(* address) and the open of the local file.                                *)
(***************************************************************************)
MainOpen ==
    /\ pc = "main"
    /\ \E opened \in BOOLEAN :
          /\ addr' = "server69"
          /\ IF opened
             THEN /\ sd' = TRUE
                  /\ fd' = TRUE
                  /\ pc' = "request"
                  /\ UNCHANGED <<exitcode, cause>>
             ELSE /\ tftp_close
                  /\ pc' = "exit"
                  /\ exitcode' = EXIT_FAILURE
                  /\ cause' = "open"
    /\ UNCHANGED <<opcode, file, flen, state, blkno, backoff, timer, msg,
                   msglen, retries, rc, timeout, clock, fpos, wfile>>
    /\ UNCHANGED <<ntx, lastTx, lastTo, sent, absblk, srvMax, anyRecv,
                   rcvdAcks, nforeign, eqRead, causeState, lastIo>>
    /\ UNCHANGED codec

(***************************************************************************)
(* main, tftpd.c:597-604, and the entry of tftp_mainloop, tftpd.c:342-346: *)
(* encode the request, set state and blkno, retries and the cleared timer. *)
(***************************************************************************)
MainRequest ==
    /\ pc = "request"
    /\ LET e == tftp_enc_packet(msg, msglen, file, TFTP_MODE_OCTET, opcode, 0, <<>>)
       IN  /\ msg' = e.msg
           /\ msglen' = e.msglen
           /\ IF e.ret = -1
              THEN /\ tftp_close
                   /\ pc' = "exit"
                   /\ exitcode' = EXIT_FAILURE
                   /\ cause' = "enc"
                   /\ UNCHANGED <<state, blkno, absblk, retries, rc, timer>>
              ELSE /\ state' = IF opcode = TFTP_OPCODE_RRQ
                               THEN TFTP_STATE_RRQ_SENT ELSE TFTP_STATE_WRQ_SENT
                   /\ blkno' = IF opcode = TFTP_OPCODE_RRQ THEN 1 ELSE 0
                   /\ absblk' = IF opcode = TFTP_OPCODE_RRQ THEN 1 ELSE 0
                   /\ retries' = TFTP_DEF_RETRIES
                   /\ rc' = EXIT_SUCCESS
                   /\ timer' = TimerCleared
                   /\ pc' = "top"
                   /\ UNCHANGED <<sd, fd, exitcode, cause>>
    /\ UNCHANGED <<opcode, file, flen, backoff, addr, timeout, clock, fpos,
                   wfile>>
    /\ UNCHANGED <<ntx, lastTx, lastTo, sent, srvMax, anyRecv, rcvdAcks,
                   nforeign, eqRead, causeState, lastIo>>
    /\ UNCHANGED codec

(***************************************************************************)
(* tftp_mainloop returns v and main, tftpd.c:604-606, calls tftp_close and *)
(* returns v as the exit status; no other step comes between.              *)
(***************************************************************************)
Return(v) ==
    /\ tftp_close
    /\ exitcode' = v
    /\ pc' = "exit"

(***************************************************************************)
(* The failure returns of tftp_mainloop that release the descriptors first *)
(* (tftpd.c:349-354, 358-364, 392-397, 401-407, 413-418, 443-448,          *)
(* 489-494): tftp_close, return EXIT_FAILURE.                              *)
(***************************************************************************)
FailClose(why) ==
    /\ tftp_close
    /\ Return(EXIT_FAILURE)
    /\ cause' = why
    /\ causeState' = state

\* The tag of a packet: its opcode and, for DATA and ACK, its block number.
PktTag(bytes) ==
    LET o == tftp_dec_opcode(bytes).opcode
    IN  <<o, IF o \in {TFTP_OPCODE_DATA, TFTP_OPCODE_ACK}
             THEN tftp_dec_blkno(bytes).blkno ELSE 0>>

(***************************************************************************)
(* One pass of the loop body up to select, tftpd.c:347-390: read the       *)
(* clock, (re)transmit when the timer is cleared or has expired, leave     *)
(* after the last ACK, and set the timer and select's timeout.             *)
(*                                                                         *)
(* The code reads only the order and the difference of now and timer, so   *)
(* when the timer is started the origin of time is moved to put now at     *)
(* Epoch: this keeps the times of the model bounded.                       *)
(***************************************************************************)
\* The test of the send phase without its timerisset half.
DueExpiredOnly(now) == timerisset(timer) /\ now > timer

\* tftpd.c:356-357: the timer is cleared or the clock is past it.
Due(now) == (~timerisset(timer)) \/ now > timer

\* gettimeofday fails, tftpd.c:349-354.
ClockFails ==
    /\ pc = "top"
    /\ FailClose("gettimeofday")
    /\ UNCHANGED <<opcode, file, flen, state, blkno, backoff, timer, addr, msg,
                   msglen, retries, rc, timeout, clock, fpos, wfile>>
    /\ UNCHANGED <<ntx, lastTx, lastTo, sent, absblk, srvMax, anyRecv,
                   rcvdAcks, nforeign, eqRead, lastIo>>
    /\ UNCHANGED codec

\* sendto fails, tftpd.c:356-364.
SendFails ==
    /\ pc = "top"
    /\ Due(clock)
    /\ FailClose("sendto")
    /\ UNCHANGED <<opcode, file, flen, state, blkno, backoff, timer, addr, msg,
                   msglen, retries, rc, timeout, clock, fpos, wfile>>
    /\ UNCHANGED <<ntx, lastTx, lastTo, sent, absblk, srvMax, anyRecv,
                   rcvdAcks, nforeign, eqRead, lastIo>>
    /\ UNCHANGED codec

SendPhase ==
    /\ pc = "top"
    /\ state # TFTP_STATE_CLOSED
    /\ LET now == clock
           shift == now - Epoch
       IN  /\ IF Due(now)
              THEN /\ ntx' = ntx + 1
                   /\ lastTx' = OutBytes
                   /\ lastTo' = addr
                   /\ sent' = IF sent # <<>> /\ sent[Len(sent)] = PktTag(OutBytes)
                              THEN sent ELSE Append(sent, PktTag(OutBytes))
                   /\ srvMax' = Max(srvMax, absblk)
              ELSE UNCHANGED <<ntx, lastTx, lastTo, sent, srvMax>>
           /\ eqRead' = (eqRead \/ (timerisset(timer) /\ now = timer))
           /\ IF state = TFTP_STATE_LAST_ACK_SENT
              THEN /\ state' = TFTP_STATE_CLOSED
                   /\ Return(rc)
                   /\ UNCHANGED <<backoff, timer, timeout, clock>>
              ELSE /\ state' = state
                   /\ pc' = "select"
                   /\ UNCHANGED <<sd, fd, exitcode>>
                   /\ IF ~timerisset(timer)
                      THEN /\ backoff' = DefBackoff
                           /\ timeout' = backoff'
                           /\ timer' = (now + backoff') - shift
                           /\ clock' = now - shift
                      ELSE IF now > timer
                      THEN /\ backoff' = backoff + backoff
                           /\ timeout' = backoff'
                           /\ timer' = (now + backoff') - shift
                           /\ clock' = now - shift
                      ELSE /\ timeout' = timer - now
                           /\ UNCHANGED <<backoff, timer, clock>>
    /\ UNCHANGED <<opcode, file, flen, blkno, addr, msg, msglen, retries, rc,
                   fpos, wfile>>
    /\ UNCHANGED <<cause, causeState, absblk, anyRecv, rcvdAcks, nforeign,
                   lastIo>>
    /\ UNCHANGED codec

(***************************************************************************)
(* select fails, tftpd.c:392-397.                                          *)
(***************************************************************************)
SelectFails ==
    /\ pc = "select"
    /\ FailClose("select")
    /\ UNCHANGED <<opcode, file, flen, state, blkno, backoff, timer, addr, msg,
                   msglen, retries, rc, timeout, clock, fpos, wfile>>
    /\ UNCHANGED <<ntx, lastTx, lastTo, sent, absblk, srvMax, anyRecv,
                   rcvdAcks, nforeign, eqRead, lastIo>>
    /\ UNCHANGED codec

(***************************************************************************)
(* select returns with no datagram, tftpd.c:399-409: the timeout has       *)
(* passed (the next clock read is at the deadline or past it); one retry   *)
(* is spent, and the session times out when none is left.                  *)
(***************************************************************************)
SelectExpires ==
    /\ pc = "select"
    /\ \E late \in {0, Late} :
          clock' = clock + timeout + late
    /\ retries' = retries - 1
    /\ IF retries' = 0
       THEN FailClose("timeout")
       ELSE /\ pc' = "top"
            /\ UNCHANGED <<sd, fd, exitcode, cause, causeState>>
    /\ UNCHANGED <<opcode, file, flen, state, blkno, backoff, timer, addr, msg,
                   msglen, rc, timeout, fpos, wfile>>
    /\ UNCHANGED <<ntx, lastTx, lastTo, sent, absblk, srvMax, anyRecv,
                   rcvdAcks, nforeign, eqRead, lastIo>>
    /\ UNCHANGED codec

(***************************************************************************)
(* The dispatch of a received datagram, tftpd.c:419-521.  A handler yields *)
(* the session fields it leaves behind; fail names a return that ends the  *)
(* loop ("read", "write": through tftp_close; "enc": without), took says   *)
(* the datagram was accepted, enc that a new packet was encoded.           *)
(***************************************************************************)
\* blkno != tftp->blkno drops the ACK (tftpd.c:434).
AckMatchesAny(b) == TRUE
AckMatches(b) == b = blkno

\* blkno == tftp->blkno accepts the DATA (tftpd.c:483).
DataMatchesAny(b) == TRUE
DataMatches(b) == b = blkno

\* A drop that clears the timer, and a drop that refills the retries.
DroppedClearsTimer ==
    [state |-> state, blkno |-> blkno, msg |-> msg, msglen |-> msglen,
     timer |-> 0, retries |-> retries, rc |-> rc, fpos |-> fpos,
     wfile |-> wfile, fail |-> "", took |-> FALSE, enc |-> FALSE,
     io |-> lastIo]

DroppedResets ==
    [state |-> state, blkno |-> blkno, msg |-> msg, msglen |-> msglen,
     timer |-> timer, retries |-> TFTP_DEF_RETRIES, rc |-> rc, fpos |-> fpos,
     wfile |-> wfile, fail |-> "", took |-> FALSE, enc |-> FALSE,
     io |-> lastIo]

\* continue: the datagram is dropped.
Dropped ==
    [state |-> state, blkno |-> blkno, msg |-> msg, msglen |-> msglen,
     timer |-> timer, retries |-> retries, rc |-> rc, fpos |-> fpos,
     wfile |-> wfile, fail |-> "", took |-> FALSE, enc |-> FALSE,
     io |-> lastIo]

\* The ACK handler without the test for LAST_DATA_SENT: every matching ACK
\* reads the next block.
OnAckAlwaysReads(buf, readok) ==
    LET b == tftp_dec_blkno(buf)
        len == Min(TFTP_BLOCKSIZE, flen - fpos)
        next == (blkno + 1) % UINT16_MOD
        e == tftp_enc_packet(msg, msglen, file, TFTP_MODE_OCTET,
                             TFTP_OPCODE_DATA, next, FileBytes(fpos, len))
    IN  IF b.rc # 0 \/ b.blkno # blkno THEN Dropped
        ELSE IF ~readok THEN [Dropped EXCEPT !.fail = "read", !.took = TRUE]
        ELSE [state |-> IF len = TFTP_BLOCKSIZE
                        THEN TFTP_STATE_DATA_SENT
                        ELSE TFTP_STATE_LAST_DATA_SENT,
              blkno |-> next, msg |-> e.msg, msglen |-> e.msglen,
              timer |-> TimerCleared, retries |-> TFTP_DEF_RETRIES, rc |-> rc,
              fpos |-> fpos + len, wfile |-> wfile,
              fail |-> "", took |-> TRUE, enc |-> TRUE, io |-> len]

\* case TFTP_OPCODE_ACK in WRQ_SENT, DATA_SENT, LAST_DATA_SENT
\* (tftpd.c:429-459); readok: read() does not fail.
OnAck(buf, readok) ==
    LET b == tftp_dec_blkno(buf)
    IN  IF b.rc # 0 THEN Dropped
        ELSE IF ~AckMatches(b.blkno) THEN Dropped
        ELSE IF state = TFTP_STATE_LAST_DATA_SENT
        THEN [Dropped EXCEPT !.state = TFTP_STATE_CLOSED, !.took = TRUE]
        ELSE LET len == IF readok
                        THEN Min(TFTP_BLOCKSIZE, flen - fpos) ELSE -1
             IN  IF len = -1
                 THEN [Dropped EXCEPT !.fail = "read", !.took = TRUE]
                 ELSE LET next == Inc16(blkno)
                          e == tftp_enc_packet(msg, msglen, file, TFTP_MODE_OCTET,
                                               TFTP_OPCODE_DATA, next,
                                               FileBytes(fpos, len))
                      IN  IF e.ret = -1
                          THEN [Dropped EXCEPT !.fail = "enc", !.took = TRUE,
                                               !.blkno = next, !.msg = e.msg,
                                               !.fpos = fpos + len,
                                               !.io = len]
                          ELSE [state |-> IF len = TFTP_BLOCKSIZE
                                          THEN TFTP_STATE_DATA_SENT
                                          ELSE TFTP_STATE_LAST_DATA_SENT,
                                blkno |-> next, msg |-> e.msg,
                                msglen |-> e.msglen, timer |-> TimerCleared,
                                retries |-> TFTP_DEF_RETRIES, rc |-> rc,
                                fpos |-> fpos + len, wfile |-> wfile,
                                fail |-> "", took |-> TRUE, enc |-> TRUE,
                                io |-> len]

\* The DATA handler without the increment of tftp->blkno.
OnDataStale(buf, writeok) ==
    LET b == tftp_dec_blkno(buf)
        d == tftp_dec_data(buf)
        e == tftp_enc_packet(msg, msglen, file, TFTP_MODE_OCTET,
                             TFTP_OPCODE_ACK, blkno, <<>>)
    IN  IF b.rc # 0 \/ b.blkno # blkno THEN Dropped
        ELSE IF ~writeok THEN [Dropped EXCEPT !.fail = "write", !.took = TRUE]
        ELSE [state |-> IF d.datalen = TFTP_BLOCKSIZE
                        THEN TFTP_STATE_ACK_SENT ELSE TFTP_STATE_LAST_ACK_SENT,
              blkno |-> blkno, msg |-> e.msg, msglen |-> e.msglen,
              timer |-> TimerCleared, retries |-> TFTP_DEF_RETRIES, rc |-> rc,
              fpos |-> fpos + d.datalen, wfile |-> wfile \o d.data,
              fail |-> "", took |-> TRUE, enc |-> TRUE, io |-> d.datalen]

\* case TFTP_OPCODE_DATA in RRQ_SENT, ACK_SENT (tftpd.c:478-506); writeok:
\* write() does not fail.  The return value of tftp_dec_data is not looked at.
OnData(buf, writeok) ==
    LET b == tftp_dec_blkno(buf)
    IN  IF b.rc # 0 THEN Dropped
        ELSE IF ~DataMatches(b.blkno) THEN Dropped
        ELSE LET d == tftp_dec_data(buf)
                 len == IF writeok THEN d.datalen ELSE -1
             IN  IF len = -1
                 THEN [Dropped EXCEPT !.fail = "write", !.took = TRUE]
                 ELSE LET e == tftp_enc_packet(msg, msglen, file, TFTP_MODE_OCTET,
                                               TFTP_OPCODE_ACK, blkno, <<>>)
                      IN  IF e.ret = -1
                          THEN [Dropped EXCEPT !.fail = "enc", !.took = TRUE,
                                               !.msg = e.msg,
                                               !.fpos = fpos + len,
                                               !.wfile = wfile \o d.data,
                                               !.io = len]
                          ELSE [state |-> IF d.datalen = TFTP_BLOCKSIZE
                                          THEN TFTP_STATE_ACK_SENT
                                          ELSE TFTP_STATE_LAST_ACK_SENT,
                                blkno |-> Inc16(blkno), msg |-> e.msg,
                                msglen |-> e.msglen, timer |-> TimerCleared,
                                retries |-> TFTP_DEF_RETRIES, rc |-> rc,
                                fpos |-> fpos + len, wfile |-> wfile \o d.data,
                                fail |-> "", took |-> TRUE, enc |-> TRUE,
                                io |-> len]

\* case TFTP_OPCODE_ERROR (tftpd.c:460-469 and 507-516).
OnErrorIgnored(buf) == Dropped

OnErrorKeepsRc(buf) ==
    LET x == tftp_dec_error(buf)
    IN  IF x.rc # 0 THEN Dropped
        ELSE [Dropped EXCEPT !.state = TFTP_STATE_CLOSED, !.took = TRUE]

OnError(buf) ==
    LET x == tftp_dec_error(buf)
    IN  IF x.rc # 0 THEN Dropped
        ELSE [Dropped EXCEPT !.rc = EXIT_FAILURE, !.state = TFTP_STATE_CLOSED,
                             !.took = TRUE]

\* The switch on state and opcode, tftpd.c:419-521.
Dispatch(buf, iook) ==
    LET o == tftp_dec_opcode(buf)
    IN  IF o.rc # 0 THEN Dropped
        ELSE CASE state \in {TFTP_STATE_WRQ_SENT, TFTP_STATE_DATA_SENT,
                             TFTP_STATE_LAST_DATA_SENT} ->
                    (CASE o.opcode = TFTP_OPCODE_ACK -> OnAck(buf, iook)
                       [] o.opcode = TFTP_OPCODE_ERROR -> OnError(buf)
                       [] OTHER -> Dropped)
               [] state \in {TFTP_STATE_RRQ_SENT, TFTP_STATE_ACK_SENT} ->
                    (CASE o.opcode = TFTP_OPCODE_DATA -> OnData(buf, iook)
                       [] o.opcode = TFTP_OPCODE_ERROR -> OnError(buf)
                       [] OTHER -> Dropped)
               [] OTHER -> Dropped

(***************************************************************************)
(* The datagrams that may arrive.  The server's packets are built byte by  *)
(* byte, independently of the client's encoder.                            *)
(***************************************************************************)
DataPkt(blk, payload) ==
    <<0, TFTP_OPCODE_DATA, HiByte(blk), LoByte(blk)>> \o payload
AckPkt(blk) == <<0, TFTP_OPCODE_ACK, HiByte(blk), LoByte(blk)>>
\* ERROR 1 with the message "x".
ErrorPkt == <<0, TFTP_OPCODE_ERROR, 0, TFTP_ERR_NOT_FOUND, 120, 0>>

\* DATA block j (counted without wrap) of a conforming server.
ServerData(j) ==
    DataPkt(j % UINT16_MOD,
            FileBytes(TFTP_BLOCKSIZE * (j - 1), ChunkLen(flen, j)))

\* What a conforming server may have sent by now, after any loss, delay and
\* duplication: for a read, DATA j once ACK j-1 (or the RRQ) was transmitted;
\* for a write, ACK j once DATA j (or the WRQ) was transmitted.
ServerPkts ==
    IF opcode = TFTP_OPCODE_RRQ
    THEN {ServerData(j) : j \in Max(1, srvMax - DupWindow + 1) ..
                                Min(srvMax, NBlocks(flen))}
    ELSE {AckPkt(j % UINT16_MOD) : j \in Max(0, srvMax - DupWindow + 1) .. srvMax}

\* Datagrams no conforming server sends at this point: too short ones, an
\* unknown opcode, ERROR packets with and without the NUL, the next block
\* number, and the expected packet from a foreign sender.
OtherPkts ==
    { <<>>, <<0, TFTP_OPCODE_DATA, 0>>, <<0, TFTP_OPCODE_ACK>>, <<0, 9, 0, 0>>,
      ErrorPkt, <<0, TFTP_OPCODE_ERROR, 0, 1, 120>>,
      AckPkt(Inc16(blkno)), DataPkt(Inc16(blkno), <<>>),
      AckPkt(blkno), DataPkt(blkno, <<>>) }

Incoming ==
    {[from |-> "tid", bytes |-> b, foreign |-> 0] : b \in ServerPkts}
    \cup {[from |-> "other", bytes |-> b, foreign |-> 1] : b \in OtherPkts}

\* recvfrom fails, tftpd.c:411-418.
RecvFails ==
    /\ pc = "select"
    /\ FailClose("recvfrom")
    /\ UNCHANGED <<opcode, file, flen, state, blkno, backoff, timer, addr, msg,
                   msglen, retries, rc, timeout, clock, fpos, wfile>>
    /\ UNCHANGED <<ntx, lastTx, lastTo, sent, absblk, srvMax, anyRecv,
                   rcvdAcks, nforeign, eqRead, lastIo>>
    /\ UNCHANGED codec

\* recvfrom stores at most sizeof(buf) bytes of the datagram (tftpd.c:411).
Truncated(bytes) == SubSeq(bytes, 1, Min(Len(bytes), TFTP_MAX_MSGSIZE))

(***************************************************************************)
(* select returns with datagram d, tftpd.c:411-521: recvfrom stores the    *)
(* datagram and its sender's address in tftp->addr, and the datagram is    *)
(* dispatched.  e is the time since the clock was read; iook says whether  *)
(* the read or write of the local file succeeds.                           *)
(***************************************************************************)
Deliver(d, e, iook) ==
    LET buf == Truncated(d.bytes)
        r == Dispatch(buf, iook)
        o == tftp_dec_opcode(buf)
        isack == o.rc = 0 /\ o.opcode = TFTP_OPCODE_ACK
                 /\ tftp_dec_blkno(buf).rc = 0
        iserr == r.took /\ o.opcode = TFTP_OPCODE_ERROR
    IN  /\ clock' = clock + e
        /\ addr' = d.from
        /\ anyRecv' = TRUE
        /\ rcvdAcks' = IF isack
                       THEN rcvdAcks \cup {tftp_dec_blkno(buf).blkno}
                       ELSE rcvdAcks
        /\ nforeign' = nforeign + d.foreign
        /\ blkno' = r.blkno
        /\ absblk' = IF r.blkno # blkno THEN absblk + 1 ELSE absblk
        /\ msg' = r.msg
        /\ msglen' = r.msglen
        /\ ntx' = IF r.enc THEN 0 ELSE ntx
        /\ fpos' = r.fpos
        /\ wfile' = r.wfile
        /\ lastIo' = r.io
        /\ IF r.fail \in {"read", "write"}
           THEN /\ FailClose(r.fail)
                /\ UNCHANGED <<state, timer, retries, rc>>
           ELSE IF r.fail = "enc"
           THEN /\ Return(EXIT_FAILURE)
                /\ cause' = "enc"
                /\ causeState' = state
                /\ UNCHANGED <<state, timer, retries, rc>>
           ELSE /\ state' = r.state
                /\ timer' = r.timer
                /\ retries' = r.retries
                /\ rc' = r.rc
                /\ cause' = IF iserr THEN "error" ELSE cause
                /\ causeState' = IF iserr THEN state ELSE causeState
                /\ IF r.state = TFTP_STATE_CLOSED
                   THEN Return(r.rc)
                   ELSE /\ pc' = "top"
                        /\ UNCHANGED <<sd, fd, exitcode>>
        /\ UNCHANGED <<opcode, file, flen, backoff, timeout>>
        /\ UNCHANGED <<lastTx, lastTo, sent, srvMax, eqRead>>
        /\ UNCHANGED codec

\* The datagrams that may arrive now and when: at most MaxForeign datagrams
\* of a session are not a conforming server's; a datagram arrives at once or
\* after the deadline, the latter only while the backoff is at most
\* MaxBackoff.
Arrivals ==
    {<<d, e>> \in Incoming \X {0, timeout + Late} :
        /\ nforeign + d.foreign <= MaxForeign
        /\ (e > timeout => backoff <= MaxBackoff)}

Receive ==
    /\ pc = "select"
    /\ \E a \in Arrivals : Deliver(a[1], a[2], TRUE)

\* The same with a failing read or write of the local file (tftpd.c:442-448,
\* 488-494).
ReceiveIoFails ==
    /\ pc = "select"
    /\ \E a \in Arrivals :
          /\ Dispatch(Truncated(a[1].bytes), FALSE).fail # ""
          /\ Deliver(a[1], a[2], FALSE)

Next ==
    \/ MainOpen
    \/ MainRequest
    \/ ClockFails
    \/ SendFails
    \/ SendPhase
    \/ SelectFails
    \/ SelectExpires
    \/ RecvFails
    \/ Receive
    \/ ReceiveIoFails

Spec == Init /\ [][Next]_vars

(***************************************************************************)
(* Sessions that are about to wrap the 16-bit block number.  A transfer    *)
(* of more than 65535 blocks reaches these states after 65534 blocks: a    *)
(* write has read 65534 blocks of the local file and encoded DATA 65534, a *)
(* read has written 65534 blocks and encoded ACK 65534 (wfile holds the    *)
(* bytes written from here on).  One short transfer starts at main.        *)
(***************************************************************************)
WrapStart == UINT16_MOD - 2

InitWrap ==
    \/ /\ Init
       /\ file = NameOf(ShortName)
       /\ flen = TailLen
    \/ /\ pc = "top"
       /\ opcode \in {TFTP_OPCODE_RRQ, TFTP_OPCODE_WRQ}
       /\ file = NameOf(ShortName)
       /\ flen = UINT16_MOD * TFTP_BLOCKSIZE + TailLen
       /\ sd = TRUE
       /\ fd = TRUE
       /\ state = IF opcode = TFTP_OPCODE_RRQ
                  THEN TFTP_STATE_ACK_SENT ELSE TFTP_STATE_DATA_SENT
       /\ blkno = IF opcode = TFTP_OPCODE_RRQ THEN WrapStart + 1 ELSE WrapStart
       /\ absblk = blkno
       /\ backoff = DefBackoff
       /\ timer = TimerCleared
       /\ addr = "tid"
       /\ msg = IF opcode = TFTP_OPCODE_RRQ
                THEN tftp_enc_packet(<<>>, 0, file, TFTP_MODE_OCTET,
                                     TFTP_OPCODE_ACK, WrapStart, <<>>).msg
                ELSE tftp_enc_packet(<<>>, 0, file, TFTP_MODE_OCTET,
                                     TFTP_OPCODE_DATA, WrapStart,
                                     FileBytes(TFTP_BLOCKSIZE * (WrapStart - 1),
                                               TFTP_BLOCKSIZE)).msg
       /\ msglen = Len(msg)
       /\ retries = TFTP_DEF_RETRIES
       /\ rc = EXIT_SUCCESS
       /\ timeout = 0
       /\ clock = Epoch
       /\ fpos = TFTP_BLOCKSIZE * WrapStart
       /\ wfile = <<>>
       /\ exitcode = -1
       /\ cause = ""
       /\ ntx = 0
       /\ lastTx = <<>>
       /\ lastTo = "none"
       /\ sent = <<>>
       /\ srvMax = WrapStart - 1
       /\ anyRecv = TRUE
       /\ rcvdAcks = {}
       /\ nforeign = 0
       /\ eqRead = FALSE
       /\ causeState = TFTP_STATE_CLOSED
       /\ lastIo = TFTP_BLOCKSIZE
       /\ CodecIdle

SpecWrap == InitWrap /\ [][Next]_vars

(***************************************************************************)
(* The codec on its own: tftp_enc_packet applied to arguments drawn from   *)
(* the sets below, and the decoders applied to the bytes it produced.      *)
(***************************************************************************)
\* n bytes of payload or message; the payload pattern has NUL bytes in it.
PayloadOf(n) == [i \in 1..n |-> (7 * i) % 256]
MessageOf(n) == [i \in 1..n |-> 1 + (i % 255)]

CodecBlknos == {0, 1, 255, 256, UINT16_MOD - 1}
CodecNameLens == {0, 1, 505, 506, 507, 508}
CodecDataLens == {0, 1, TFTP_BLOCKSIZE - 1, TFTP_BLOCKSIZE, TFTP_BLOCKSIZE + 1}
CodecMsgLens == {0, 1, TFTP_BLOCKSIZE - 2, TFTP_BLOCKSIZE - 1, TFTP_BLOCKSIZE}

CodecInputs ==
    {[opcode |-> o, blkno |-> 0, file |-> NameOf(n), data |-> <<>>] :
        o \in {TFTP_OPCODE_RRQ, TFTP_OPCODE_WRQ}, n \in CodecNameLens}
    \cup {[opcode |-> TFTP_OPCODE_DATA, blkno |-> b, file |-> <<>>,
           data |-> PayloadOf(n)] : b \in CodecBlknos, n \in CodecDataLens}
    \cup {[opcode |-> TFTP_OPCODE_ACK, blkno |-> b, file |-> <<>>,
           data |-> <<>>] : b \in CodecBlknos}
    \cup {[opcode |-> TFTP_OPCODE_ERROR, blkno |-> b, file |-> <<>>,
           data |-> MessageOf(n)] : b \in CodecBlknos, n \in CodecMsgLens}

InitCodec ==
    /\ pc = "codec"
    /\ cin \in CodecInputs
    /\ cout = <<>>
    /\ opcode = cin.opcode
    /\ file = cin.file
    /\ flen = 0
    /\ sd = FALSE
    /\ fd = FALSE
    /\ state = TFTP_STATE_CLOSED
    /\ blkno = 0
    /\ backoff = 0
    /\ timer = TimerCleared
    /\ addr = "none"
    /\ msg = <<>>
    /\ msglen = 0
    /\ retries = 0
    /\ rc = EXIT_SUCCESS
    /\ timeout = 0
    /\ clock = Epoch
    /\ fpos = 0
    /\ wfile = <<>>
    /\ exitcode = -1
    /\ absblk = 0
    /\ HistInit

\* tftp_enc_packet(&tftp, opcode, blkno, data, datalen), tftpd.c:123-187.
CodecEncode ==
    /\ pc = "codec"
    /\ LET e == tftp_enc_packet(msg, msglen, cin.file, TFTP_MODE_OCTET,
                                cin.opcode, cin.blkno, cin.data)
       IN  /\ msg' = e.msg
           /\ msglen' = e.msglen
           /\ cout' = [ret |-> e.ret]
    /\ pc' = "encoded"
    /\ UNCHANGED <<opcode, file, flen, sd, fd, state, blkno, backoff, timer,
                   addr, retries, rc, timeout, clock, fpos, wfile, exitcode>>
    /\ UNCHANGED <<hist, cin>>

\* The four decoders on the encoded bytes, tftpd.c:193-255.
CodecDecode ==
    /\ pc = "encoded"
    /\ cout.ret # -1
    /\ cout' = [ret |-> cout.ret,
                op |-> tftp_dec_opcode(OutBytes),
                blk |-> tftp_dec_blkno(OutBytes),
                data |-> tftp_dec_data(OutBytes),
                err |-> tftp_dec_error(OutBytes)]
    /\ pc' = "decoded"
    /\ UNCHANGED <<opcode, file, flen, sd, fd, state, blkno, backoff, timer,
                   addr, msg, msglen, retries, rc, timeout, clock, fpos, wfile,
                   exitcode>>
    /\ UNCHANGED <<hist, cin>>

NextCodec ==
    \/ CodecEncode
    \/ CodecDecode

SpecCodec == InitCodec /\ [][NextCodec]_vars

(***************************************************************************)
(* Properties of the session, checked under Spec.                          *)
(***************************************************************************)
Exited == pc = "exit"
Succeeded == Exited /\ exitcode = EXIT_SUCCESS

\* The states in which the loop waits for a datagram.
ReceivingStates ==
    {TFTP_STATE_RRQ_SENT, TFTP_STATE_WRQ_SENT, TFTP_STATE_DATA_SENT,
     TFTP_STATE_LAST_DATA_SENT, TFTP_STATE_ACK_SENT}

FailureCauses ==
    {"open", "enc", "gettimeofday", "sendto", "select", "timeout", "recvfrom",
     "read", "write", "error"}

\* A read completed: the last write to the local file was a DATA payload of
\* fewer than 512 bytes and the ACK of that block is the datagram sent last.
ReadCompleted ==
    /\ state = TFTP_STATE_CLOSED
    /\ lastIo \in 0..(TFTP_BLOCKSIZE - 1)
    /\ Len(wfile) = fpos
    /\ ntx >= 1
    /\ lastTx = AckPkt((absblk - 1) % UINT16_MOD)

\* A write completed: the DATA packet sent last holds the fewer than 512 bytes
\* read last, and an ACK with its block number was received.
WriteCompleted ==
    /\ state = TFTP_STATE_CLOSED
    /\ lastIo \in 0..(TFTP_BLOCKSIZE - 1)
    /\ PktTag(lastTx) = <<TFTP_OPCODE_DATA, blkno>>
    /\ Len(lastTx) = 4 + lastIo
    /\ blkno \in rcvdAcks

\* C1: the program exits with status 0 only when the transfer completed (a
\* read: the final DATA block of fewer than 512 bytes was written and its ACK
\* transmitted; a write: an ACK with the block number of the last DATA block
\* of fewer than 512 bytes was received); after a timeout, a server ERROR or
\* a failing send, receive, select, clock read, file read or write it exits
\* with a non-zero status.
C1_ExitStatus ==
    Exited =>
        /\ exitcode \in {EXIT_SUCCESS, EXIT_FAILURE}
        /\ cause \in FailureCauses \cup {""}
        /\ (cause # "" => exitcode # EXIT_SUCCESS)
        /\ (exitcode = EXIT_SUCCESS =>
                /\ cause = ""
                /\ IF opcode = TFTP_OPCODE_RRQ
                   THEN ReadCompleted ELSE WriteCompleted)

C1_Witness ==
    /\ Succeeded
    /\ opcode = TFTP_OPCODE_RRQ
    /\ flen = TFTP_BLOCKSIZE + TailLen
    /\ Len(wfile) = flen

\* The session timed out and no datagram ever arrived.
TimedOutUnanswered == Exited /\ cause = "timeout" /\ ~anyRecv

\* C2, as stated: with no datagram ever arriving the request is transmitted
\* exactly 7 times before the session fails with a timeout.
C2_SevenTransmissions == TimedOutUnanswered => ntx = 7

\* C2, as the code has it: with no datagram ever arriving the session fails
\* with a timeout after the sixth expiry of select; the request was then
\* transmitted at most 6 times (the first transmission and 5 retransmissions)
\* and exactly 6 times unless a clock read was equal to the deadline, which
\* spends a retry without a transmission.
C2_SixTransmissions ==
    /\ TimedOutUnanswered =>
          /\ retries = 0
          /\ exitcode = EXIT_FAILURE
          /\ causeState \in {TFTP_STATE_RRQ_SENT, TFTP_STATE_WRQ_SENT}
          /\ sent = <<<<opcode, 0>>>>
          /\ ntx \in 1..6
          /\ (~eqRead => ntx = 6)
    /\ (pc \in {"top", "select"} /\ ~anyRecv) =>
          /\ retries \in 1..6
          /\ ntx + retries <= 7

C2_Witness == TimedOutUnanswered /\ ~eqRead /\ ntx = 6

C4_WriteLockStep ==
    (opcode = TFTP_OPCODE_WRQ /\ pc \in {"top", "select", "exit"}) =>
        /\ Len(sent) <= NBlocks(flen) + 1
        /\ \A i \in 1..Len(sent) :
              /\ sent[i] = IF i = 1 THEN <<TFTP_OPCODE_WRQ, 0>>
                           ELSE <<TFTP_OPCODE_DATA, i - 1>>
              /\ (i >= 2 => (i - 2) \in rcvdAcks)
        /\ blkno <= NBlocks(flen)
        /\ fpos = Min(flen, TFTP_BLOCKSIZE * blkno)
        /\ (blkno >= 1 =>
               msg = DataPkt(blkno, FileBytes(TFTP_BLOCKSIZE * (blkno - 1),
                                              ChunkLen(flen, blkno))))
        /\ (Len(sent) >= 2 =>
               LET k == Len(sent) - 1
               IN  lastTx = DataPkt(k, FileBytes(TFTP_BLOCKSIZE * (k - 1),
                                                 ChunkLen(flen, k))))
        /\ (state = TFTP_STATE_LAST_DATA_SENT => blkno = NBlocks(flen))
        /\ (state = TFTP_STATE_DATA_SENT => blkno \in 1..(NBlocks(flen) - 1))
        /\ (Succeeded =>
               /\ Len(sent) = NBlocks(flen) + 1
               /\ blkno = NBlocks(flen)
               /\ blkno \in rcvdAcks
               /\ fpos = flen)

C4_Witness ==
    /\ Succeeded
    /\ opcode = TFTP_OPCODE_WRQ
    /\ flen = TFTP_BLOCKSIZE + TailLen
    /\ Len(sent) = 3
    /\ rcvdAcks = {0, 1, 2}

\* What the dispatch makes of a well-formed ERROR packet in the state at hand.
OnErrorPkt == Dispatch(ErrorPkt, TRUE)

C5_ErrorCloses ==
    /\ (pc = "select" =>
           /\ state \in ReceivingStates
           /\ OnErrorPkt.took
           /\ OnErrorPkt.state = TFTP_STATE_CLOSED
           /\ OnErrorPkt.rc = EXIT_FAILURE
           /\ OnErrorPkt.fail = ""
           /\ ~OnErrorPkt.enc
           /\ OnErrorPkt.fpos = fpos
           /\ OnErrorPkt.wfile = wfile
           /\ OnErrorPkt.io = lastIo)
    /\ (cause = "error" =>
           /\ Exited
           /\ causeState \in ReceivingStates
           /\ state = TFTP_STATE_CLOSED
           /\ rc = EXIT_FAILURE
           /\ exitcode = EXIT_FAILURE)

C5_NothingAfter ==
    cause = "error" => UNCHANGED <<ntx, sent, lastTx, fpos, wfile, lastIo>>

\* C5: in each of the states in which the loop receives datagrams (RRQ_SENT,
\* WRQ_SENT, DATA_SENT, LAST_DATA_SENT, ACK_SENT) a received ERROR packet
\* closes the session with a failure exit status, and after it no packet is
\* transmitted and the local file is neither read nor written.
C5_ErrorEndsSession == []C5_ErrorCloses /\ [][C5_NothingAfter]_vars

C5_Witness ==
    /\ Exited
    /\ cause = "error"
    /\ causeState = TFTP_STATE_LAST_DATA_SENT
    /\ exitcode = EXIT_FAILURE

\* C6, as stated: once a packet after the request was transmitted (to the
\* sender of the first valid reply), every later transmission goes to the
\* same address, whatever datagrams arrive in between.
C6_PeerStaysFixed ==
    [][(Len(sent) >= 2 /\ Len(sent') >= 2) => lastTo' = lastTo]_vars

\* C7: whenever the program has ended, on any path, the socket and the local
\* file are closed; they are open all the while the loop runs.
C7_DescriptorsClosed ==
    /\ (Exited => ~sd /\ ~fd)
    /\ (pc \in {"request", "top", "select"} => sd /\ fd)

C7_Witness ==
    /\ Exited
    /\ cause = "write"
    /\ causeState = TFTP_STATE_ACK_SENT
    /\ ~sd
    /\ ~fd

(***************************************************************************)
(* Properties of the block number, checked under SpecWrap.                 *)
(***************************************************************************)
\* The transfer has more than 65535 blocks.
ManyBlocks == flen >= TFTP_BLOCKSIZE * (UINT16_MOD - 1)

\* C8: the block number is an unsigned 16-bit counter that goes from 65535
\* to 0: a write of more than 65535 blocks sends DATA 0 after DATA 65535
\* only when ACK 65535 was received, takes an ACK 0 as the acknowledgement of
\* DATA 0 and goes on to the end of the file; a read expects block 0 after
\* block 65535 in the same way.
C8_BlockNumberWraps ==
    /\ blkno \in 0..(UINT16_MOD - 1)
    /\ blkno = absblk % UINT16_MOD
    /\ (ManyBlocks /\ opcode = TFTP_OPCODE_WRQ) =>
          /\ \A i \in 1..Len(sent) :
                /\ sent[i] = <<TFTP_OPCODE_DATA, (WrapStart + i - 1) % UINT16_MOD>>
                /\ (i >= 2 => ((WrapStart + i - 2) % UINT16_MOD) \in rcvdAcks)
          /\ fpos = Min(flen, TFTP_BLOCKSIZE * absblk)
          /\ cause # "enc"
          /\ (Succeeded =>
                 /\ absblk = NBlocks(flen)
                 /\ fpos = flen
                 /\ {UINT16_MOD - 1, 0, 1} \subseteq rcvdAcks)
    /\ (ManyBlocks /\ opcode = TFTP_OPCODE_RRQ /\ nforeign = 0) =>
          /\ wfile = FileBytes(TFTP_BLOCKSIZE * WrapStart, Len(wfile))
          /\ fpos = Min(flen, TFTP_BLOCKSIZE * (absblk - 1))
          /\ fpos = TFTP_BLOCKSIZE * WrapStart + Len(wfile)
          /\ (Succeeded => fpos = flen /\ absblk = NBlocks(flen) + 1)

C8_Witness ==
    /\ Succeeded
    /\ opcode = TFTP_OPCODE_WRQ
    /\ ManyBlocks
    /\ absblk = UINT16_MOD + 1
    /\ blkno = 1
    /\ 0 \in rcvdAcks

(***************************************************************************)
(* Properties of the codec, checked under SpecCodec.                       *)
(***************************************************************************)
\* The number of bytes the packet format gives the encoding of the arguments.
WireSize(in) ==
    CASE in.opcode \in {TFTP_OPCODE_RRQ, TFTP_OPCODE_WRQ} ->
            2 + Len(in.file) + 1 + Len(TFTP_MODE_OCTET) + 1
      [] in.opcode = TFTP_OPCODE_DATA -> 4 + Len(in.data)
      [] in.opcode = TFTP_OPCODE_ERROR -> 4 + StrLenFrom(in.data, 1) + 1
      [] OTHER -> 4

\* C9, as stated: tftp_enc_packet fails exactly when the encoding of an RRQ,
\* WRQ, DATA or ERROR packet would take 517 bytes or more, and succeeds for
\* every encoding of 516 bytes or fewer.
C9_FailsFrom517 ==
    (pc = "encoded" /\ cin.opcode \in {TFTP_OPCODE_RRQ, TFTP_OPCODE_WRQ,
                                       TFTP_OPCODE_DATA, TFTP_OPCODE_ERROR}) =>
        /\ (cout.ret = -1 <=> WireSize(cin) >= TFTP_MAX_MSGSIZE + 1)
        /\ (cout.ret # -1 => cout.ret = WireSize(cin) /\ msglen = cout.ret)

\* C10, as stated: for every packet that tftp_enc_packet encodes, a DATA
\* packet with an empty payload among them, the decoders succeed on the
\* encoded bytes and give back the opcode, the block number or error code,
\* and the payload or message.
C10_RoundTrip ==
    pc = "decoded" =>
        /\ cout.op.rc = 0
        /\ cout.op.opcode = cin.opcode
        /\ (cin.opcode \in {TFTP_OPCODE_DATA, TFTP_OPCODE_ACK} =>
               /\ cout.blk.rc = 0
               /\ cout.blk.blkno = cin.blkno)
        /\ (cin.opcode = TFTP_OPCODE_DATA =>
               /\ cout.data.rc = 0
               /\ cout.data.datalen = Len(cin.data)
               /\ cout.data.data = cin.data)
        /\ (cin.opcode = TFTP_OPCODE_ERROR =>
               /\ cout.err.rc = 0
               /\ cout.err.errcode = cin.blkno
               /\ cout.err.msg = cin.data)

(***************************************************************************)
(* Properties of the dispatch and of the timer, checked under Spec.        *)
(***************************************************************************)
WriteStates ==
    {TFTP_STATE_WRQ_SENT, TFTP_STATE_DATA_SENT, TFTP_STATE_LAST_DATA_SENT}
ReadStates == {TFTP_STATE_RRQ_SENT, TFTP_STATE_ACK_SENT}

\* The opcode and block number fields of a datagram, read off its bytes.
OpcodeField(b) == b[1] * 256 + b[2]
BlockField(b) == b[3] * 256 + b[4]

\* The opcode, the block number or the error message cannot be decoded.
Malformed(b) ==
    \/ Len(b) < 2
    \/ OpcodeField(b) \in {TFTP_OPCODE_DATA, TFTP_OPCODE_ACK} /\ Len(b) < 4
    \/ /\ OpcodeField(b) = TFTP_OPCODE_ERROR
       /\ (Len(b) < 5 \/ \A k \in 5..Len(b) : b[k] # 0)

\* The opcode is not one the state at hand expects.
Unexpected(b) ==
    /\ Len(b) >= 2
    /\ OpcodeField(b) \notin
          (IF state \in WriteStates
           THEN {TFTP_OPCODE_ACK, TFTP_OPCODE_ERROR}
           ELSE {TFTP_OPCODE_DATA, TFTP_OPCODE_ERROR})

\* A DATA or ACK with a block number other than tftp->blkno.
WrongBlock(b) ==
    /\ Len(b) >= 4
    /\ OpcodeField(b) \in {TFTP_OPCODE_DATA, TFTP_OPCODE_ACK}
    /\ BlockField(b) # blkno

ToDrop(b) == Malformed(b) \/ Unexpected(b) \/ WrongBlock(b)

\* The step receives the datagram d, whenever after the clock read.
Receives(d) ==
    /\ pc = "select"
    /\ addr' = d.from
    /\ Deliver(d, clock' - clock, TRUE)

C11_Untouched ==
    /\ pc' = "top"
    /\ UNCHANGED <<state, blkno, msg, msglen, retries, timer, backoff>>
    /\ UNCHANGED <<fpos, wfile, lastIo, ntx, lastTx, sent, rc>>

\* A step that changes one of these is not the receipt of a datagram to drop.
C11_DropStep ==
    (pc = "select" /\ ~C11_Untouched) =>
        \A d \in Incoming :
            ~(Receives(d) /\ ToDrop(Truncated(d.bytes)))

C11_ResendNeedsDeadline ==
    (ntx >= 1 /\ ntx' = ntx + 1) => (timerisset(timer) /\ clock > timer)

\* C11: a datagram that is malformed, has an opcode the state does not
\* expect, or has a block number other than tftp->blkno is dropped: state,
\* blkno, the outgoing buffer and its length, the retry counter and the local
\* file stay as they are, nothing is transmitted by the drop, and the packet
\* in the buffer is transmitted again only when the clock is past the deadline.
C11_DropsChangeNothing == [][C11_DropStep /\ C11_ResendNeedsDeadline]_vars

C11_Witness ==
    /\ pc = "top"
    /\ state = TFTP_STATE_ACK_SENT
    /\ blkno = 2
    /\ nforeign = 1
    /\ addr = "other"
    /\ ntx = 1
    /\ retries = TFTP_DEF_RETRIES
    /\ clock <= timer

\* A DATA packet with the block number the session expects.
MatchingData(b) ==
    /\ Len(b) >= 4
    /\ OpcodeField(b) = TFTP_OPCODE_DATA
    /\ BlockField(b) = blkno

\* The state after a DATA payload of n bytes.
AfterData(n) ==
    IF n = TFTP_BLOCKSIZE THEN TFTP_STATE_ACK_SENT ELSE TFTP_STATE_LAST_ACK_SENT

\* Payload lengths tried in every state that waits for DATA.
DataLens == {0, 100, TFTP_BLOCKSIZE - 1, TFTP_BLOCKSIZE}

C12_Handler ==
    (pc = "select" /\ state \in ReadStates) =>
        \A n \in DataLens :
            LET r == Dispatch(DataPkt(blkno, PayloadOf(n)), TRUE)
            IN  /\ r.took
                /\ r.fail = ""
                /\ SubSeq(r.msg, 1, r.msglen) = AckPkt(blkno)
                /\ r.blkno = (blkno + 1) % 65536
                /\ r.state = AfterData(n)
                /\ r.wfile = wfile \o PayloadOf(n)

C12_Step ==
    (pc = "select" /\ state \in ReadStates) =>
        \A d \in Incoming :
            LET b == Truncated(d.bytes)
            IN  \/ /\ pc' = "top"
                   /\ blkno' = (blkno + 1) % 65536
                   /\ state' = AfterData(Len(b) - 4)
                   /\ SubSeq(msg', 1, msglen') = AckPkt(blkno)
                   /\ wfile' = wfile \o SubSeq(b, 5, Len(b))
                \/ ~(MatchingData(b) /\ Receives(d))

\* C12: in RRQ_SENT or ACK_SENT with tftp->blkno = n, a DATA packet with
\* block number n and a payload of L bytes puts ACK n in the outgoing
\* buffer, makes tftp->blkno n + 1 (modulo 65536) and sets the state to
\* ACK_SENT when L = 512 and to LAST_ACK_SENT when L < 512.
C12_DataAccepted == []C12_Handler /\ [][C12_Step]_vars

C12_Witness ==
    /\ pc = "top"
    /\ opcode = TFTP_OPCODE_RRQ
    /\ state = TFTP_STATE_LAST_ACK_SENT
    /\ blkno = 2
    /\ SubSeq(msg, 1, msglen) = AckPkt(1)
    /\ lastIo = TailLen
    /\ ntx = 0

C13_AtLastAck ==
    state = TFTP_STATE_LAST_ACK_SENT =>
        /\ opcode = TFTP_OPCODE_RRQ
        /\ ntx = 0
        /\ rc = EXIT_SUCCESS
        /\ ~timerisset(timer)
        /\ SubSeq(msg, 1, msglen) = AckPkt((absblk - 1) % 65536)
        /\ \/ pc = "top"
           \/ Exited /\ cause \in {"gettimeofday", "sendto"}

C13_LastSend ==
    (state = TFTP_STATE_LAST_ACK_SENT /\ pc = "top") =>
        \/ /\ ntx' = 1
           /\ lastTx' = SubSeq(msg, 1, msglen)
           /\ state' = TFTP_STATE_CLOSED
           /\ pc' = "exit"
           /\ exitcode' = EXIT_SUCCESS
           /\ cause' = ""
           /\ UNCHANGED <<anyRecv, rcvdAcks, nforeign, retries, fpos, wfile>>
        \/ /\ cause' \in {"gettimeofday", "sendto"}
           /\ exitcode' = EXIT_FAILURE
           /\ ntx' = 0

\* C13: in LAST_ACK_SENT the program is at the head of the loop with the
\* final ACK not yet transmitted and the timer cleared; the next send phase
\* transmits that ACK once, sets the state to CLOSED and the program exits
\* with success, without a wait, a receive or a retransmission (unless the
\* clock read or the sendto of that phase fails).
C13_LastAckOnce == []C13_AtLastAck /\ [][C13_LastSend]_vars

C13_Witness ==
    /\ Succeeded
    /\ opcode = TFTP_OPCODE_RRQ
    /\ state = TFTP_STATE_CLOSED
    /\ ntx = 1
    /\ lastTx = AckPkt(2)
    /\ nforeign = 0

\* C14, as stated: tftp_dec_data accepts the 4 bytes of a DATA packet with
\* an empty payload and gives a payload of length 0, and in RRQ_SENT or
\* ACK_SENT such a packet with the expected block number writes nothing to
\* the local file, encodes the ACK of that block and sets LAST_ACK_SENT.
C14_EmptyDataLegal ==
    (pc = "select" /\ state \in ReadStates) =>
        LET b == DataPkt(blkno, <<>>)
            d == tftp_dec_data(b)
            r == Dispatch(b, TRUE)
        IN  /\ d.rc = 0
            /\ d.datalen = Len(b) - 4
            /\ r.took
            /\ r.wfile = wfile
            /\ r.fpos = fpos
            /\ SubSeq(r.msg, 1, r.msglen) = AckPkt(blkno)
            /\ r.state = TFTP_STATE_LAST_ACK_SENT

\* C15, as stated: the loop has ended exactly when the state is CLOSED:
\* after every return of tftp_mainloop, a timeout or an I/O failure too, the
\* state is CLOSED, and while the loop runs the state is not CLOSED.
C15_ClosedIffReturned ==
    /\ (Exited => state = TFTP_STATE_CLOSED)
    /\ (pc \in {"top", "select"} => state # TFTP_STATE_CLOSED)

\* C16, as stated: once a datagram was transmitted, msg[0..msglen) holds at
\* every point the bytes of the datagram transmitted last.
C16_BufferAlwaysLastSent ==
    lastTx # <<>> => SubSeq(msg, 1, msglen) = lastTx

C16_WhileTransmitted ==
    /\ (ntx >= 1 => SubSeq(msg, 1, msglen) = lastTx)
    /\ (pc = "select" => ntx >= 1)
    /\ ((ntx = 0 /\ pc \in {"top", "select"}) => pc = "top" /\ ~timerisset(timer))

C16_SameBytesAgain ==
    (ntx >= 1 /\ ntx' = ntx + 1) => (lastTx' = lastTx /\ UNCHANGED <<msg, msglen>>)

\* C16, as the code has it: from the transmission of a packet until the next
\* packet is encoded, and so whenever the loop waits for a datagram,
\* msg[0..msglen) holds the bytes of the datagram transmitted last, and every
\* retransmission sends the same bytes again; from the acceptance of a
\* datagram, which encodes the next packet, to the send phase that follows,
\* the buffer holds the new packet, which was not transmitted yet.
C16_BufferIsLastSent == []C16_WhileTransmitted /\ [][C16_SameBytesAgain]_vars

C16_Witness ==
    /\ pc = "select"
    /\ state = TFTP_STATE_DATA_SENT
    /\ ntx = 2
    /\ lastTx = SubSeq(msg, 1, msglen)
    /\ Len(lastTx) = TFTP_MAX_MSGSIZE

LastStates == {TFTP_STATE_LAST_DATA_SENT, TFTP_STATE_LAST_ACK_SENT}

C17_IoDone ==
    /\ state = TFTP_STATE_LAST_DATA_SENT =>
          /\ opcode = TFTP_OPCODE_WRQ
          /\ fpos = flen
          /\ lastIo \in 0..(TFTP_BLOCKSIZE - 1)
          /\ SubSeq(msg, 1, msglen) =
                 DataPkt(blkno, FileBytes(flen - lastIo, lastIo))
          /\ (pc = "select" =>
                 /\ Dispatch(AckPkt(blkno), FALSE) = Dispatch(AckPkt(blkno), TRUE)
                 /\ Dispatch(AckPkt(blkno), TRUE).state = TFTP_STATE_CLOSED
                 /\ Dispatch(AckPkt(blkno), TRUE).fpos = fpos)
    /\ state = TFTP_STATE_LAST_ACK_SENT =>
          /\ opcode = TFTP_OPCODE_RRQ
          /\ lastIo \in 0..(TFTP_BLOCKSIZE - 1)
          /\ fpos = Len(wfile)
          /\ (nforeign = 0 => wfile = FileBytes(0, flen))

C17_NoIoAfter ==
    state \in LastStates =>
        /\ UNCHANGED <<fpos, wfile, lastIo>>
        /\ state' \in {state, TFTP_STATE_CLOSED}
        /\ cause' \notin {"read", "write"}

\* C17: in LAST_DATA_SENT every byte of the local file was read and the last,
\* short block is in the DATA packet of the buffer; in LAST_ACK_SENT the
\* final block was written; in and after these states the local file is
\* neither read nor written.
C17_LastStatesIoDone == []C17_IoDone /\ [][C17_NoIoAfter]_vars

C17_Witness ==
    /\ pc = "select"
    /\ state = TFTP_STATE_LAST_DATA_SENT
    /\ flen = TFTP_BLOCKSIZE + TailLen
    /\ fpos = flen
    /\ blkno = 2
    /\ ntx = 2

C18_BackoffOfWait ==
    pc = "select" =>
        /\ ntx >= 1
        /\ timerisset(timer)
        /\ backoff = 50000 * 2 ^ (ntx - 1)
        /\ retries \in 1..6

\* A transmission: the first one of a packet waits 50 ms, each later one
\* twice the wait before.
C18_SendStep ==
    (pc = "top" /\ pc' = "select" /\ ntx' = ntx + 1) =>
        /\ backoff' = 50000 * 2 ^ ntx
        /\ timeout' = backoff'
        /\ timer' = clock' + backoff'

\* An accepted ACK or DATA after which the session goes on.
C18_AdvanceStep ==
    (pc = "select" /\ pc' = "top" /\ (state' # state \/ blkno' # blkno)) =>
        /\ retries' = 6
        /\ ~timerisset(timer')
        /\ ntx' = 0

\* A step that changes the retry counter or the backoff is not the receipt of
\* a datagram to drop.
C18_DropStep ==
    (pc = "select" /\ ~UNCHANGED <<retries, backoff>>) =>
        \A d \in Incoming :
            ~(Receives(d) /\ ToDrop(Truncated(d.bytes)))

\* C18: when a matching ACK or DATA is accepted and the session goes on, the
\* retry counter is 6 again and the timer is cleared, so that the first
\* transmission of the new packet is followed by a wait of 50 ms and each
\* retransmission of it by twice the wait before (50, 100, 200, ... ms); a
\* dropped datagram changes neither the retry counter nor the backoff.
C18_RetriesAndBackoff ==
    []C18_BackoffOfWait /\ [][C18_SendStep /\ C18_AdvanceStep /\ C18_DropStep]_vars

C18_Witness ==
    /\ pc = "select"
    /\ state = TFTP_STATE_ACK_SENT
    /\ ntx = 3
    /\ backoff = 200000
    /\ timeout = 200000
    /\ retries = 4

\* C19, as stated: a retry is never spent without a transmission in
\* between: while the loop waits, the transmissions of the packet in the
\* buffer and the retries left add up to at least 7, as every expiry of the
\* wait that left a retry was followed by a retransmission.
C19_RetryNeedsSend ==
    pc = "select" => ntx + retries >= 7

\* C20, as stated: whatever datagrams arrive, one packet is transmitted at
\* most as often as the retry budget allows: once and then once for each of
\* the 6 retries.
C20_TransmissionsBounded ==
    ntx <= 1 + 6

====
